---------------------------- MODULE Spec2Model ----------------------------
(***************************************************************************)
(* The marketplace backend actor: the category registry, the batch upload  *)
(* session and the product catalog.  Every public function of the actor is *)
(* one atomic step (a canister processes one message at a time); a call    *)
(* that traps rolls back every change it made, so its only trace is the    *)
(* outcome recorded in `last`.                                             *)
(***************************************************************************)
EXTENDS Naturals, Sequences, FiniteSets, TLC

VARIABLES
    categories,        \* Map<Text, Category>: the category registry
    priceConstraints,  \* Map<Text, PriceConstraint>
    products,          \* Map<Text, Product>: the catalog
    currentBatch,      \* List<ProductInput>: the pending items
    isBatchUploading,  \* Bool: a batch is active
    baskets,           \* Map<Text, Map<Text, Nat>>: one basket per principal
    clients,           \* the admin pages running handleBatchUpload
    last               \* the latest call and its outcome (Ok or the trap message)

vars == <<categories, priceConstraints, products, currentBatch,
          isBatchUploading, baskets, clients, last>>

(***************************************************************************)
(* Bounds of the model.                                                    *)
(***************************************************************************)
MaxSubs == 1
MaxBatch == 2
MaxProducts == 2
MaxQuantity == 2

(***************************************************************************)
(* Values the callers draw their arguments from.                           *)
(***************************************************************************)
Names == {"3d print", "shape type"}
Texts == Names \cup {""}
ParentNames == Names \cup {"Ceramic Ocarina"}
Principals == {"admin", "guest"}
ProductNames == {"Widget", "Gadget"}
Images == {"refX", "refY"}
\* the listings the admin uploads: name, price, image
Listings == { [name |-> "Widget", price |-> 500, image |-> "refX"],
              [name |-> "Gadget", price |-> 900, image |-> "refY"] }
CategoryIds == Names

RECURSIVE SeqsUpTo(_, _)
SeqsUpTo(S, n) ==
    IF n = 0 THEN {<<>>}
    ELSE LET shorter == SeqsUpTo(S, n - 1)
         IN  shorter \cup {Append(s, x) : s \in shorter, x \in S}

\* the callers of the basket functions, and the quantities they ask for
Shoppers == {"alice", "bob", "guest"}
Quantities == 0..MaxQuantity
\* the admin pages that can run the batch upload form at the same time
Clients == {"page1", "page2"}
\* a page whose form is not submitting: setIsUploading(false)
ClientIdle == [pc |-> "idle", category |-> "", queue |-> <<>>, sent |-> <<>>]
\* the product lists a page submits: handleBatchUpload refuses an empty one
Submissions == SeqsUpTo(Listings, MaxBatch) \ {<<>>}

\* ?Text: <<>> is null, <<t>> is ?t
null == <<>>
Some(t) == <<t>>
OptTexts == {null} \cup {Some(t) : t \in ParentNames}

CategoryV2 == [name : Texts, subcategories : SeqsUpTo(Names, 1),
               parent : OptTexts]

\* the lists reorderCategories is called with: well-formed and ill-formed ones
ReorderEntries ==
    { [name |-> "3d print", subcategories |-> <<>>, parent |-> null],
      [name |-> "3d print", subcategories |-> <<"shape type">>, parent |-> null],
      [name |-> "shape type", subcategories |-> <<>>, parent |-> Some("3d print")],
      [name |-> "shape type", subcategories |-> <<>>, parent |-> null],
      [name |-> "3d print", subcategories |-> <<>>, parent |-> Some("shape type")] }
ReorderLists == SeqsUpTo(ReorderEntries, 2)

(***************************************************************************)
(* mo:core/Map as a function with a finite domain.                         *)
(***************************************************************************)
MapEmpty == <<>>
containsKey(m, k) == k \in DOMAIN m
MapAdd(m, k, v) == [x \in (DOMAIN m) \cup {k} |-> IF x = k THEN v ELSE m[x]]
MapRemove(m, k) == [x \in (DOMAIN m) \ {k} |-> m[x]]
MapSize(m) == Cardinality(DOMAIN m)

Contains(s, x) == \E i \in 1..Len(s) : s[i] = x

hasPermissionAdmin(caller) == caller = "admin"
\* AccessControl.hasPermission(accessControlState, caller, #user)
hasPermissionUser(caller) == caller \in {"admin", "alice", "bob"}

\* the outcome of a call that returned; any other outcome is the trap message
Ok == "ok"
ParentMissing ==
    "Parent category does not exist. Please select a valid parent category or leave the parent field empty."
NestedSubcategory ==
    "Cannot create a subcategory within a subcategory. Only one level of subcategories is supported."
BatchInProgress ==
    "A batch is already in progress. Finish current upload before starting a new one."

(***************************************************************************)
(* Category management                                                     *)
(***************************************************************************)
\* a variant that puts the child first in the parent's list
updateParentPrepending(cats, parent, childName) ==
    MapAdd(cats, parent.name,
           [parent EXCEPT !.subcategories = <<childName>> \o parent.subcategories])

updateParentWithNewSubcategory(cats, parent, childName) ==
    MapAdd(cats, parent.name,
           [parent EXCEPT !.subcategories = Append(parent.subcategories, childName)])

\* a variant without the check of the parent's own parent
addCategoryAnyDepth(cats, caller, category) ==
    IF ~hasPermissionAdmin(caller)
    THEN [trap |-> "Unauthorized: Only admins can add categories", categories |-> cats]
    ELSE IF category.name = ""
    THEN [trap |-> "Cannot add empty category name", categories |-> cats]
    ELSE IF containsKey(cats, category.name)
    THEN [trap |-> "Category already exists", categories |-> cats]
    ELSE IF category.parent = null
    THEN [trap |-> Ok, categories |-> MapAdd(cats, category.name, category)]
    ELSE IF ~containsKey(cats, category.parent[1])
    THEN [trap |-> ParentMissing, categories |-> cats]
    ELSE [trap |-> Ok,
          categories |->
              MapAdd(MapAdd(cats, category.parent[1],
                            [cats[category.parent[1]] EXCEPT !.subcategories =
                                 Append(@, category.name)]),
                     category.name, category)]

addCategory(cats, caller, category) ==
    IF ~hasPermissionAdmin(caller)
    THEN [trap |-> "Unauthorized: Only admins can add categories", categories |-> cats]
    ELSE IF category.name = ""
    THEN [trap |-> "Cannot add empty category name", categories |-> cats]
    ELSE IF containsKey(cats, category.name)
    THEN [trap |-> "Category already exists", categories |-> cats]
    ELSE IF category.parent = null
    THEN [trap |-> Ok, categories |-> MapAdd(cats, category.name, category)]
    ELSE LET parentName == category.parent[1] IN
         IF ~containsKey(cats, parentName)
         THEN [trap |-> ParentMissing, categories |-> cats]
         ELSE IF cats[parentName].parent # null
         THEN [trap |-> NestedSubcategory,
               categories |-> cats]
         ELSE [trap |-> Ok,
               categories |->
                   MapAdd(updateParentWithNewSubcategory(cats, cats[parentName],
                                                         category.name),
                          category.name, category)]

\* a variant that also removes the subcategories of the deleted category
deleteCategoryCascading(cats, caller, name) ==
    IF ~hasPermissionAdmin(caller)
    THEN [trap |-> "Unauthorized: Only admins can delete categories", categories |-> cats]
    ELSE IF ~containsKey(cats, name)
    THEN [trap |-> "Category does not exist, cannot be deleted", categories |-> cats]
    ELSE [trap |-> Ok,
          categories |->
              [k \in {x \in DOMAIN cats : x # name /\ cats[x].parent # Some(name)}
                  |-> cats[k]]]

deleteCategory(cats, caller, name) ==
    IF ~hasPermissionAdmin(caller)
    THEN [trap |-> "Unauthorized: Only admins can delete categories", categories |-> cats]
    ELSE IF ~containsKey(cats, name)
    THEN [trap |-> "Category does not exist, cannot be deleted", categories |-> cats]
    ELSE [trap |-> Ok, categories |-> MapRemove(cats, name)]

\* the null branch of updateCategory: strip name from every list holding it
stripFromParents(cats, name) ==
    [k \in DOMAIN cats |->
        IF Contains(cats[k].subcategories, name)
        THEN [cats[k] EXCEPT !.subcategories =
                  SelectSeq(cats[k].subcategories, LAMBDA sub : sub # name)]
        ELSE cats[k]]

updateCategory(cats, caller, category) ==
    IF ~hasPermissionAdmin(caller)
    THEN [trap |-> "Unauthorized: Only admins can update categories", categories |-> cats]
    ELSE IF category.name = ""
    THEN [trap |-> "Cannot update a category to an empty name", categories |-> cats]
    ELSE IF ~containsKey(cats, category.name)
    THEN [trap |-> "Category does not exist, cannot be updated", categories |-> cats]
    ELSE IF category.parent = null
    THEN [trap |-> Ok,
          categories |-> MapAdd(stripFromParents(cats, category.name),
                                category.name, category)]
    ELSE LET parentName == category.parent[1] IN
         IF ~containsKey(cats, parentName)
         THEN [trap |-> ParentMissing, categories |-> cats]
         ELSE IF cats[parentName].parent # null
         THEN [trap |-> NestedSubcategory,
               categories |-> cats]
         ELSE LET linked ==
                      IF Contains(cats[parentName].subcategories, category.name)
                      THEN cats
                      ELSE updateParentWithNewSubcategory(cats, cats[parentName],
                                                          category.name)
              IN  [trap |-> Ok,
                   categories |-> MapAdd(linked, category.name, category)]

editCategory(cats, caller, oldName, newCategory) ==
    IF ~hasPermissionAdmin(caller)
    THEN [trap |-> "Unauthorized: Only admins can edit categories", categories |-> cats]
    ELSE IF newCategory.name = ""
    THEN [trap |-> "Cannot update a category to an empty name", categories |-> cats]
    ELSE IF ~containsKey(cats, oldName)
    THEN [trap |-> "Category does not exist, cannot be edited", categories |-> cats]
    ELSE IF /\ newCategory.parent # null
            /\ ~containsKey(cats, newCategory.parent[1])
    THEN [trap |-> ParentMissing, categories |-> cats]
    ELSE IF /\ newCategory.parent # null
            /\ cats[newCategory.parent[1]].parent # null
    THEN [trap |-> NestedSubcategory,
          categories |-> cats]
    ELSE [trap |-> Ok,
          categories |-> MapAdd(MapRemove(cats, oldName),
                                newCategory.name, newCategory)]

RECURSIVE newCategoryMap(_, _)
newCategoryMap(categoryList, acc) ==
    IF categoryList = <<>> THEN acc
    ELSE newCategoryMap(Tail(categoryList),
                        MapAdd(acc, Head(categoryList).name, Head(categoryList)))

reorderCategories(cats, caller, categoryList) ==
    IF ~hasPermissionAdmin(caller)
    THEN [trap |-> "Unathorized: Only admins can reorder categories", categories |-> cats]
    ELSE [trap |-> Ok, categories |-> newCategoryMap(categoryList, MapEmpty)]

ceramicCategory == [name |-> "Ceramic Ocarina", subcategories |-> <<>>, parent |-> null]
printedCategory == [name |-> "3D Printed Ocarina", subcategories |-> <<>>, parent |-> null]
ceramicPrice == [category |-> "Ceramic Ocarina", minPrice |-> "19"]
printedPrice == [category |-> "3D Printed Ocarina", minPrice |-> "9"]

createDefaultCategoriesAndPriceConstraints(cats, prices, caller) ==
    IF ~hasPermissionAdmin(caller)
    THEN [trap |-> "Unauthorized: Only admins can initialize defaults",
          categories |-> cats, priceConstraints |-> prices]
    ELSE [trap |-> Ok,
          categories |-> MapAdd(MapAdd(cats, ceramicCategory.name, ceramicCategory),
                                printedCategory.name, printedCategory),
          priceConstraints |-> MapAdd(MapAdd(prices, ceramicPrice.category, ceramicPrice),
                                      printedPrice.category, printedPrice)]

(***************************************************************************)
(* Product batch upload management and the product catalog                 *)
(***************************************************************************)
generateProductDescription(name, category) ==
    LET baseDescription == name \o " is a high-quality, handcrafted musical instrument."
        categorySpecific ==
            CASE category = "Ceramic Ocarina" ->
                   " This ceramic ocarina features a classic design, producing rich and warm tones. It is perfect for both beginners and professionals looking for an authentic sound experience."
              [] category = "3D Printed Ocarina" ->
                   " This 3D printed ocarina combines modern design with durability, offering a lightweight and robust instrument. Ideal for musicians seeking innovative and reliable performance."
              [] OTHER ->
                   " This product is crafted with care, ensuring excellent sound quality and playability."
    IN  "The product named " \o name \o " is in the category of " \o category \o "."
        \o "\n - Characteristics: Easy to play, Durable, Portable.\n - 30-day money-back guarantee for all products in this category \n\n"
        \o baseDescription \o categorySpecific

\* a variant that uses the name alone as the id
productIdByName(name, prods) == name

\* name.concat("#").concat(products.size().toText())
productId(name, prods) == name \o "#" \o ToString(MapSize(prods))

\* a variant that forgets currentBatch.clear()
startBatchUploadKeeping(cats, batch, uploading, caller, categoryId) ==
    IF ~hasPermissionAdmin(caller)
    THEN [trap |-> "Unauthorized: Only admins can perform this action",
          currentBatch |-> batch, isBatchUploading |-> uploading]
    ELSE IF ~containsKey(cats, categoryId)
    THEN [trap |-> "Invalid category! Please select an existing category.",
          currentBatch |-> batch, isBatchUploading |-> uploading]
    ELSE IF uploading
    THEN [trap |-> BatchInProgress,
          currentBatch |-> batch, isBatchUploading |-> uploading]
    ELSE [trap |-> Ok, currentBatch |-> batch, isBatchUploading |-> TRUE]

\* a variant without the isBatchUploading branch: a start restarts the batch
startBatchUploadRestarting(cats, batch, uploading, caller, categoryId) ==
    IF ~hasPermissionAdmin(caller)
    THEN [trap |-> "Unauthorized: Only admins can perform this action",
          currentBatch |-> batch, isBatchUploading |-> uploading]
    ELSE IF ~containsKey(cats, categoryId)
    THEN [trap |-> "Invalid category! Please select an existing category.",
          currentBatch |-> batch, isBatchUploading |-> uploading]
    ELSE [trap |-> Ok, currentBatch |-> <<>>, isBatchUploading |-> TRUE]

startBatchUpload(cats, batch, uploading, caller, categoryId) ==
    IF ~hasPermissionAdmin(caller)
    THEN [trap |-> "Unauthorized: Only admins can perform this action",
          currentBatch |-> batch, isBatchUploading |-> uploading]
    ELSE IF ~containsKey(cats, categoryId)
    THEN [trap |-> "Invalid category! Please select an existing category.",
          currentBatch |-> batch, isBatchUploading |-> uploading]
    ELSE IF uploading
    THEN [trap |-> BatchInProgress,
          currentBatch |-> batch, isBatchUploading |-> uploading]
    ELSE [trap |-> Ok, currentBatch |-> <<>>, isBatchUploading |-> TRUE]

\* a variant that puts the new item in front of the pending list
uploadProductImagePrepending(prods, batch, uploading, caller, name, image, price, categoryId) ==
    IF ~hasPermissionAdmin(caller)
    THEN [trap |-> "Unauthorized: Only admins can perform this action",
          currentBatch |-> batch]
    ELSE IF ~uploading
    THEN [trap |-> "No batch in progress. Start a new batch upload first.",
          currentBatch |-> batch]
    ELSE [trap |-> Ok,
          currentBatch |->
              <<[id |-> name \o "#" \o ToString(MapSize(prods)), name |-> name,
                 price |-> price, image |-> image, categoryId |-> categoryId]>>
                  \o batch]

\* a variant without the isBatchUploading check
uploadProductImageAnytime(prods, batch, uploading, caller, name, image, price, categoryId) ==
    IF ~hasPermissionAdmin(caller)
    THEN [trap |-> "Unauthorized: Only admins can perform this action",
          currentBatch |-> batch]
    ELSE [trap |-> Ok,
          currentBatch |->
              Append(batch, [id |-> name \o "#" \o ToString(MapSize(prods)),
                             name |-> name, price |-> price, image |-> image,
                             categoryId |-> categoryId])]

uploadProductImage(prods, batch, uploading, caller, name, image, price, categoryId) ==
    IF ~hasPermissionAdmin(caller)
    THEN [trap |-> "Unauthorized: Only admins can perform this action",
          currentBatch |-> batch]
    ELSE IF ~uploading
    THEN [trap |-> "No batch in progress. Start a new batch upload first.",
          currentBatch |-> batch]
    ELSE [trap |-> Ok,
          currentBatch |->
              Append(batch, [id |-> productId(name, prods), name |-> name,
                             price |-> price, image |-> image,
                             categoryId |-> categoryId])]

\* { p with description }
commitProduct(cats, p) ==
    [id |-> p.id, name |-> p.name,
     description |-> generateProductDescription(p.name, cats[p.categoryId].name),
     price |-> p.price, categoryId |-> p.categoryId, image |-> p.image]

\* the loop of finishBatchUpload over currentBatch.values(), without its trap
RECURSIVE commitBatch(_, _, _)
commitBatch(cats, prods, batch) ==
    IF batch = <<>> THEN prods
    ELSE commitBatch(cats,
                     MapAdd(prods, Head(batch).id, commitProduct(cats, Head(batch))),
                     Tail(batch))

\* a variant that leaves the flag as it found it
finishBatchUploadKeepingFlag(cats, prods, batch, uploading, caller) ==
    IF ~hasPermissionAdmin(caller)
    THEN [trap |-> "Unauthorized: Only admins can perform this action",
          products |-> prods, currentBatch |-> batch, isBatchUploading |-> uploading]
    ELSE IF \E i \in 1..Len(batch) : ~containsKey(cats, batch[i].categoryId)
    THEN [trap |-> "Category does not exist",
          products |-> prods, currentBatch |-> batch, isBatchUploading |-> uploading]
    ELSE [trap |-> Ok, products |-> commitBatch(cats, prods, batch),
          currentBatch |-> batch, isBatchUploading |-> uploading]

\* the items in front of the first one whose category is missing
RECURSIVE knownPrefix(_, _)
knownPrefix(cats, batch) ==
    IF batch = <<>> \/ ~containsKey(cats, Head(batch).categoryId) THEN <<>>
    ELSE <<Head(batch)>> \o knownPrefix(cats, Tail(batch))

\* a variant whose failure keeps the products added before the missing category
finishBatchUploadPartial(cats, prods, batch, uploading, caller) ==
    IF ~hasPermissionAdmin(caller)
    THEN [trap |-> "Unauthorized: Only admins can perform this action",
          products |-> prods, currentBatch |-> batch, isBatchUploading |-> uploading]
    ELSE IF \E i \in 1..Len(batch) : ~containsKey(cats, batch[i].categoryId)
    THEN [trap |-> "Category does not exist",
          products |-> commitBatch(cats, prods, knownPrefix(cats, batch)),
          currentBatch |-> batch, isBatchUploading |-> uploading]
    ELSE [trap |-> Ok, products |-> commitBatch(cats, prods, batch),
          currentBatch |-> batch, isBatchUploading |-> FALSE]

\* a variant without the permission check
finishBatchUploadByAnyone(cats, prods, batch, uploading, caller) ==
    IF \E i \in 1..Len(batch) : ~containsKey(cats, batch[i].categoryId)
    THEN [trap |-> "Category does not exist",
          products |-> prods, currentBatch |-> batch, isBatchUploading |-> uploading]
    ELSE [trap |-> Ok, products |-> commitBatch(cats, prods, batch),
          currentBatch |-> batch, isBatchUploading |-> FALSE]

finishBatchUpload(cats, prods, batch, uploading, caller) ==
    IF ~hasPermissionAdmin(caller)
    THEN [trap |-> "Unauthorized: Only admins can perform this action",
          products |-> prods, currentBatch |-> batch, isBatchUploading |-> uploading]
    ELSE IF \E i \in 1..Len(batch) : ~containsKey(cats, batch[i].categoryId)
    THEN [trap |-> "Category does not exist",
          products |-> prods, currentBatch |-> batch, isBatchUploading |-> uploading]
    ELSE [trap |-> Ok, products |-> commitBatch(cats, prods, batch),
          currentBatch |-> batch, isBatchUploading |-> FALSE]

addProduct(cats, prods, caller, name, price, image, categoryId) ==
    IF ~hasPermissionAdmin(caller)
    THEN [trap |-> "Unauthorized: Only admins can add products", products |-> prods]
    ELSE IF ~containsKey(cats, categoryId)
    THEN [trap |-> "Category does not exist", products |-> prods]
    ELSE [trap |-> Ok,
          products |->
              MapAdd(prods, productId(name, prods),
                     [id |-> productId(name, prods), name |-> name,
                      description |->
                          generateProductDescription(name, cats[categoryId].name),
                      price |-> price, image |-> image, categoryId |-> categoryId])]

\* products.values().toArray(): the keys fix the order of the array, so it is
\* modelled as the set of its elements
getAllProducts(prods) == {prods[k] : k \in DOMAIN prods}

\* products.get(productId)
getProduct(prods, id) == IF containsKey(prods, id) THEN Some(prods[id]) ELSE null

\* a variant that files the updated product under a fresh id
updateProductImageRekeying(prods, caller, id, newImage) ==
    IF ~hasPermissionAdmin(caller)
    THEN [trap |-> "Unauthorized: Only admins can update product images",
          products |-> prods, result |-> null]
    ELSE IF ~containsKey(prods, id)
    THEN [trap |-> "Product does not exist. Cannot update image.",
          products |-> prods, result |-> null]
    ELSE LET fresh == prods[id].name \o "#new"
             updatedProduct == [prods[id] EXCEPT !.image = newImage, !.id = fresh]
         IN  [trap |-> Ok,
              products |-> MapAdd(MapRemove(prods, id), fresh, updatedProduct),
              result |-> Some(updatedProduct)]

\* a variant that builds the stored record anew and leaves the description out
updateProductImageRebuilding(prods, caller, id, newImage) ==
    IF ~hasPermissionAdmin(caller)
    THEN [trap |-> "Unauthorized: Only admins can update product images",
          products |-> prods, result |-> null]
    ELSE IF ~containsKey(prods, id)
    THEN [trap |-> "Product does not exist. Cannot update image.",
          products |-> prods, result |-> null]
    ELSE LET updatedProduct == [id |-> prods[id].id, name |-> prods[id].name,
                                description |-> "", price |-> prods[id].price,
                                categoryId |-> prods[id].categoryId,
                                image |-> newImage]
         IN  [trap |-> Ok, products |-> MapAdd(prods, id, updatedProduct),
              result |-> Some(updatedProduct)]

\* result is the returned Product, null when the call traps
updateProductImage(prods, caller, id, newImage) ==
    IF ~hasPermissionAdmin(caller)
    THEN [trap |-> "Unauthorized: Only admins can update product images",
          products |-> prods, result |-> null]
    ELSE IF ~containsKey(prods, id)
    THEN [trap |-> "Product does not exist. Cannot update image.",
          products |-> prods, result |-> null]
    ELSE LET updatedProduct == [prods[id] EXCEPT !.image = newImage]
         IN  [trap |-> Ok, products |-> MapAdd(prods, id, updatedProduct),
              result |-> Some(updatedProduct)]

(***************************************************************************)
(* The data migration of the canister upgrade.                             *)
(***************************************************************************)
\* Migration.run on the categories of the old actor
run(cats) ==
    IF ~containsKey(cats, "3d print") THEN cats
    ELSE IF Contains(cats["3d print"].subcategories, "shape type") THEN cats
    ELSE MapAdd(cats, "3d print",
                [cats["3d print"] EXCEPT
                    !.subcategories = cats["3d print"].subcategories
                                          \o <<"shape type">>])

(***************************************************************************)
(* Basket management.  A basket is keyed by caller.toText(); the model     *)
(* uses the caller's name as that text.                                    *)
(***************************************************************************)
\* a variant that does not look the product up
addToBasketUnchecked(prods, bsk, caller, id, quantity) ==
    IF ~hasPermissionUser(caller)
    THEN [trap |-> "Unauthorized: Only users can add to basket", baskets |-> bsk]
    ELSE LET basket == IF containsKey(bsk, caller) THEN bsk[caller] ELSE MapEmpty
         IN  [trap |-> Ok,
              baskets |-> MapAdd(bsk, caller, MapAdd(basket, id, quantity))]

\* a variant that adds the quantity to the one already in the basket
addToBasketAccumulating(prods, bsk, caller, id, quantity) ==
    IF ~hasPermissionUser(caller)
    THEN [trap |-> "Unauthorized: Only users can add to basket", baskets |-> bsk]
    ELSE IF ~containsKey(prods, id)
    THEN [trap |-> "Product does not exist. Cannot add to basket.", baskets |-> bsk]
    ELSE LET basket == IF containsKey(bsk, caller) THEN bsk[caller] ELSE MapEmpty
             before == IF containsKey(basket, id) THEN basket[id] ELSE 0
         IN  [trap |-> Ok,
              baskets |-> MapAdd(bsk, caller, MapAdd(basket, id, before + quantity))]

addToBasket(prods, bsk, caller, id, quantity) ==
    IF ~hasPermissionUser(caller)
    THEN [trap |-> "Unauthorized: Only users can add to basket", baskets |-> bsk]
    ELSE IF ~containsKey(prods, id)
    THEN [trap |-> "Product does not exist. Cannot add to basket.", baskets |-> bsk]
    ELSE LET basket == IF containsKey(bsk, caller) THEN bsk[caller] ELSE MapEmpty
         IN  [trap |-> Ok,
              baskets |-> MapAdd(bsk, caller, MapAdd(basket, id, quantity))]

\* result is the returned array; the keys fix its order, so it is modelled
\* as the set of its items
getBasket(bsk, caller) ==
    IF ~hasPermissionUser(caller)
    THEN [trap |-> "Unauthorized: Only users can retrieve their basket", result |-> {}]
    ELSE IF ~containsKey(bsk, caller)
    THEN [trap |-> Ok, result |-> {}]
    ELSE [trap |-> Ok,
          result |-> {[productId |-> id, quantity |-> bsk[caller][id]] :
                          id \in DOMAIN bsk[caller]}]

\* a variant that removes the basket of every principal
clearBasketOfAll(bsk, caller) ==
    IF ~hasPermissionUser(caller)
    THEN [trap |-> "Unauthorized: Only users can clear their basket", baskets |-> bsk]
    ELSE [trap |-> Ok, baskets |-> MapEmpty]

\* a variant that keeps the mapping and empties the basket in it
clearBasketEmptying(bsk, caller) ==
    IF ~hasPermissionUser(caller)
    THEN [trap |-> "Unauthorized: Only users can clear their basket", baskets |-> bsk]
    ELSE [trap |-> Ok, baskets |-> MapAdd(bsk, caller, MapEmpty)]

clearBasket(bsk, caller) ==
    IF ~hasPermissionUser(caller)
    THEN [trap |-> "Unauthorized: Only users can clear their basket", baskets |-> bsk]
    ELSE [trap |-> Ok, baskets |-> MapRemove(bsk, caller)]

BasketAbsent == "Basket is already empty"

\* a variant that does not look the product up
removeFromBasketUnchecked(prods, bsk, caller, id) ==
    IF ~hasPermissionUser(caller)
    THEN [trap |-> "Unauthorized: Only users can remove items from basket",
          baskets |-> bsk]
    ELSE IF ~containsKey(bsk, caller)
    THEN [trap |-> BasketAbsent, baskets |-> bsk]
    ELSE [trap |-> Ok,
          baskets |-> MapAdd(bsk, caller, MapRemove(bsk[caller], id))]

removeFromBasket(prods, bsk, caller, id) ==
    IF ~hasPermissionUser(caller)
    THEN [trap |-> "Unauthorized: Only users can remove items from basket",
          baskets |-> bsk]
    ELSE IF ~containsKey(bsk, caller)
    THEN [trap |-> BasketAbsent, baskets |-> bsk]
    ELSE IF ~containsKey(prods, id)
    THEN [trap |-> "Product does not exist. Cannot remove from basket.",
          baskets |-> bsk]
    ELSE [trap |-> Ok,
          baskets |-> MapAdd(bsk, caller, MapRemove(bsk[caller], id))]

(***************************************************************************)
(* The actor's public functions as steps.                                  *)
(***************************************************************************)
WithinBounds(cats) ==
    \A k \in DOMAIN cats : Len(cats[k].subcategories) <= MaxSubs

Init ==
    /\ categories = MapEmpty
    /\ priceConstraints = MapEmpty
    /\ products = MapEmpty
    /\ currentBatch = <<>>
    /\ isBatchUploading = FALSE
    /\ baskets = MapEmpty
    /\ clients = [c \in Clients |-> ClientIdle]
    /\ last = [op |-> "init", trap |-> Ok]

AddCategory(caller, category) ==
    LET r == addCategory(categories, caller, category) IN
    /\ WithinBounds(r.categories)
    /\ categories' = r.categories
    /\ last' = [op |-> "addCategory", trap |-> r.trap]
    /\ UNCHANGED <<priceConstraints, products, currentBatch, isBatchUploading,
                 baskets, clients>>

DeleteCategory(caller, name) ==
    LET r == deleteCategory(categories, caller, name) IN
    /\ categories' = r.categories
    /\ last' = [op |-> "deleteCategory", trap |-> r.trap]
    /\ UNCHANGED <<priceConstraints, products, currentBatch, isBatchUploading,
                 baskets, clients>>

UpdateCategory(caller, category) ==
    LET r == updateCategory(categories, caller, category) IN
    /\ WithinBounds(r.categories)
    /\ categories' = r.categories
    /\ last' = [op |-> "updateCategory", trap |-> r.trap]
    /\ UNCHANGED <<priceConstraints, products, currentBatch, isBatchUploading,
                 baskets, clients>>

EditCategory(caller, oldName, newCategory) ==
    LET r == editCategory(categories, caller, oldName, newCategory) IN
    /\ categories' = r.categories
    /\ last' = [op |-> "editCategory", trap |-> r.trap]
    /\ UNCHANGED <<priceConstraints, products, currentBatch, isBatchUploading,
                 baskets, clients>>

ReorderCategories(caller, categoryList) ==
    LET r == reorderCategories(categories, caller, categoryList) IN
    /\ categories' = r.categories
    /\ last' = [op |-> "reorderCategories", trap |-> r.trap]
    /\ UNCHANGED <<priceConstraints, products, currentBatch, isBatchUploading,
                 baskets, clients>>

CreateDefaultCategoriesAndPriceConstraints(caller) ==
    LET r == createDefaultCategoriesAndPriceConstraints(categories, priceConstraints,
                                                        caller) IN
    /\ categories' = r.categories
    /\ priceConstraints' = r.priceConstraints
    /\ last' = [op |-> "createDefaultCategoriesAndPriceConstraints", trap |-> r.trap]
    /\ UNCHANGED <<products, currentBatch, isBatchUploading,
                 baskets, clients>>

\* the validated category operations
NextCategoryEdits ==
    \E caller \in Principals :
        \/ \E c \in CategoryV2 : AddCategory(caller, c)
        \/ \E c \in CategoryV2 : UpdateCategory(caller, c)
        \/ \E n \in Names, c \in CategoryV2 : EditCategory(caller, n, c)
        \/ \E n \in ParentNames : DeleteCategory(caller, n)
        \/ CreateDefaultCategoriesAndPriceConstraints(caller)

NextCategories ==
    \/ NextCategoryEdits
    \/ \E caller \in Principals, l \in ReorderLists : ReorderCategories(caller, l)

StartBatchUpload(caller, categoryId) ==
    LET r == startBatchUpload(categories, currentBatch, isBatchUploading, caller,
                              categoryId) IN
    /\ currentBatch' = r.currentBatch
    /\ isBatchUploading' = r.isBatchUploading
    /\ last' = [op |-> "startBatchUpload", trap |-> r.trap]
    /\ UNCHANGED <<categories, priceConstraints, products,
                 baskets, clients>>

UploadProductImage(caller, name, image, price, categoryId) ==
    LET r == uploadProductImage(products, currentBatch, isBatchUploading, caller,
                                name, image, price, categoryId) IN
    /\ Len(r.currentBatch) <= MaxBatch
    /\ currentBatch' = r.currentBatch
    /\ last' = [op |-> "uploadProductImage", trap |-> r.trap]
    /\ UNCHANGED <<categories, priceConstraints, products, isBatchUploading,
                 baskets, clients>>

FinishBatchUpload(caller) ==
    LET r == finishBatchUpload(categories, products, currentBatch, isBatchUploading,
                               caller) IN
    /\ MapSize(r.products) <= MaxProducts
    /\ products' = r.products
    /\ currentBatch' = r.currentBatch
    /\ isBatchUploading' = r.isBatchUploading
    /\ last' = [op |-> "finishBatchUpload", trap |-> r.trap]
    /\ UNCHANGED <<categories, priceConstraints,
                 baskets, clients>>

AddProduct(caller, name, price, image, categoryId) ==
    LET r == addProduct(categories, products, caller, name, price, image, categoryId) IN
    /\ MapSize(r.products) <= MaxProducts
    /\ products' = r.products
    /\ last' = [op |-> "addProduct", trap |-> r.trap]
    /\ UNCHANGED <<categories, priceConstraints, currentBatch, isBatchUploading,
                 baskets, clients>>

UpdateProductImage(caller, id, newImage) ==
    LET r == updateProductImage(products, caller, id, newImage) IN
    /\ products' = r.products
    /\ last' = [op |-> "updateProductImage", trap |-> r.trap]
    /\ UNCHANGED <<categories, priceConstraints, currentBatch, isBatchUploading,
                 baskets, clients>>

\* the ids updateProductImage is called with: the stored ones and an unknown one
ProductIds == {n \o "#" \o ToString(i) : n \in ProductNames, i \in 0..MaxProducts}

TopLevelCategories == {c \in CategoryV2 : c.subcategories = <<>> /\ c.parent = null}

Admins == {p \in Principals : hasPermissionAdmin(p)}

NextCatalog ==
    \E caller \in Admins :
        \/ \E c \in TopLevelCategories : AddCategory(caller, c)
        \/ \E n \in Names : DeleteCategory(caller, n)
        \/ \E c \in CategoryIds : StartBatchUpload(caller, c)
        \/ \E l \in Listings, c \in CategoryIds :
               UploadProductImage(caller, l.name, l.image, l.price, c)
        \/ FinishBatchUpload(caller)
        \/ \E l \in Listings, c \in CategoryIds :
               AddProduct(caller, l.name, l.price, l.image, c)

SpecCatalog == Init /\ [][NextCatalog]_vars

\* every mutating call, by admins and by callers without the admin permission
PrintOnly == {c \in TopLevelCategories : c.name = "3d print"}
WidgetOnly == {l \in Listings : l.name = "Widget"}

NextAccess ==
    \E caller \in Principals :
        \/ \E c \in PrintOnly : AddCategory(caller, c)
        \/ \E c \in PrintOnly : UpdateCategory(caller, c)
        \/ \E c \in PrintOnly : EditCategory(caller, "3d print", c)
        \/ DeleteCategory(caller, "3d print")
        \/ \E l \in SeqsUpTo(PrintOnly, 1) : ReorderCategories(caller, l)
        \/ StartBatchUpload(caller, "3d print")
        \/ \E l \in WidgetOnly :
               UploadProductImage(caller, l.name, l.image, l.price, "3d print")
        \/ FinishBatchUpload(caller)
        \/ \E l \in WidgetOnly :
               AddProduct(caller, l.name, l.price, l.image, "3d print")
        \/ \E id \in ProductIds, i \in Images : UpdateProductImage(caller, id, i)

SpecAccess == Init /\ [][NextAccess]_vars

SpecCategoryEdits == Init /\ [][NextCategoryEdits]_vars

SpecCategories == Init /\ [][NextCategories]_vars

\* the basket steps record their caller next to the outcome
AddToBasket(caller, id, quantity) ==
    LET r == addToBasket(products, baskets, caller, id, quantity) IN
    /\ baskets' = r.baskets
    /\ last' = [op |-> "addToBasket", trap |-> r.trap, caller |-> caller]
    /\ UNCHANGED <<categories, priceConstraints, products, currentBatch,
                   isBatchUploading, clients>>

\* a query: it changes no state of the actor
GetBasket(caller) ==
    LET r == getBasket(baskets, caller) IN
    /\ last' = [op |-> "getBasket", trap |-> r.trap, caller |-> caller]
    /\ UNCHANGED <<categories, priceConstraints, products, currentBatch,
                   isBatchUploading, baskets, clients>>

ClearBasket(caller) ==
    LET r == clearBasket(baskets, caller) IN
    /\ baskets' = r.baskets
    /\ last' = [op |-> "clearBasket", trap |-> r.trap, caller |-> caller]
    /\ UNCHANGED <<categories, priceConstraints, products, currentBatch,
                   isBatchUploading, clients>>

RemoveFromBasket(caller, id) ==
    LET r == removeFromBasket(products, baskets, caller, id) IN
    /\ baskets' = r.baskets
    /\ last' = [op |-> "removeFromBasket", trap |-> r.trap, caller |-> caller]
    /\ UNCHANGED <<categories, priceConstraints, products, currentBatch,
                   isBatchUploading, clients>>

\* shoppers filling baskets from a catalog the admin extends
NextBaskets ==
    \/ \E caller \in Admins :
           \/ \E c \in PrintOnly : AddCategory(caller, c)
           \/ \E l \in Listings :
                  AddProduct(caller, l.name, l.price, l.image, "3d print")
    \/ \E caller \in Shoppers \ {"bob"} :
           \/ \E id \in ProductIds, q \in Quantities : AddToBasket(caller, id, q)
           \/ \E id \in ProductIds : RemoveFromBasket(caller, id)
           \/ ClearBasket(caller)
           \/ GetBasket(caller)
    \* a second user, who keeps to one product
    \/ AddToBasket("bob", "Widget#0", 1)
    \/ ClearBasket("bob")

SpecBaskets == Init /\ [][NextBaskets]_vars

(***************************************************************************)
(* handleBatchUpload of the admin page: one backend call per step.  Every  *)
(* page is signed in as an admin.                                          *)
(***************************************************************************)
PageCaller == "admin"

\* a variant that goes on to the uploads whatever startBatchUpload answered
afterStartRegardless(r, category, items) ==
    [pc |-> "uploading", category |-> category, queue |-> items, sent |-> <<>>]

\* await startBatchMutation.mutateAsync(categoryPath): a rejected start
\* throws into the catch that ends the submission
afterStart(r, category, items) ==
    IF r.trap # Ok THEN ClientIdle
    ELSE [pc |-> "uploading", category |-> category, queue |-> items, sent |-> <<>>]

\* the form is submitted: the validations pass and the batch is started
ClientStart(c, category, items) ==
    LET r == startBatchUpload(categories, currentBatch, isBatchUploading,
                              PageCaller, category) IN
    /\ clients[c].pc = "idle"
    /\ MapSize(products) + Len(items) <= MaxProducts
    /\ currentBatch' = r.currentBatch
    /\ isBatchUploading' = r.isBatchUploading
    /\ clients' = [clients EXCEPT ![c] = afterStart(r, category, items)]
    /\ last' = [op |-> "startBatchUpload", trap |-> r.trap, client |-> c]
    /\ UNCHANGED <<categories, priceConstraints, products, baskets>>

\* one round of the loop: the item is uploaded; a failed upload marks the
\* item and the loop goes on
ClientUpload(c) ==
    /\ clients[c].pc = "uploading"
    /\ clients[c].queue # <<>>
    /\ LET item == Head(clients[c].queue)
           r == uploadProductImage(products, currentBatch, isBatchUploading,
                                   PageCaller, item.name, item.image, item.price,
                                   clients[c].category)
       IN  /\ currentBatch' = r.currentBatch
           /\ clients' =
                  [clients EXCEPT
                      ![c].queue = Tail(@),
                      ![c].sent = IF r.trap = Ok
                                  THEN Append(@, r.currentBatch[Len(r.currentBatch)])
                                  ELSE @]
           /\ last' = [op |-> "uploadProductImage", trap |-> r.trap, client |-> c]
    /\ UNCHANGED <<categories, priceConstraints, products, isBatchUploading,
                   baskets>>

\* after the loop: the batch is finished; success and failure both end the
\* submission
ClientFinish(c) ==
    LET r == finishBatchUpload(categories, products, currentBatch,
                               isBatchUploading, PageCaller) IN
    /\ clients[c].pc = "uploading"
    /\ clients[c].queue = <<>>
    /\ products' = r.products
    /\ currentBatch' = r.currentBatch
    /\ isBatchUploading' = r.isBatchUploading
    /\ clients' = [clients EXCEPT ![c] = ClientIdle]
    /\ last' = [op |-> "finishBatchUpload", trap |-> r.trap, client |-> c]
    /\ UNCHANGED <<categories, priceConstraints, baskets>>

\* two pages submitting batches against a registry the admin has filled
NextClients ==
    \/ \E c \in PrintOnly : AddCategory(PageCaller, c)
    \/ \E c \in Clients :
           \/ \E category \in CategoryIds, items \in Submissions :
                  ClientStart(c, category, items)
           \/ ClientUpload(c)
           \/ ClientFinish(c)

SpecClients == Init /\ [][NextClients]_vars

\* the canister is upgraded: (with migration = Migration.run)
Upgrade ==
    /\ WithinBounds(run(categories))
    /\ categories' = run(categories)
    /\ last' = [op |-> "upgrade", trap |-> Ok]
    /\ UNCHANGED <<priceConstraints, products, currentBatch, isBatchUploading,
                   baskets, clients>>

\* the registry across upgrades
NextUpgrades ==
    \/ \E caller \in Admins :
           \/ \E c \in CategoryV2 : AddCategory(caller, c)
           \/ \E n \in ParentNames : DeleteCategory(caller, n)
    \/ Upgrade

SpecUpgrades == Init /\ [][NextUpgrades]_vars

\* the registry with subcategories next to a catalog that refers to it
NextRegistryAndCatalog ==
    \E caller \in Admins :
        \/ \E c \in CategoryV2 : AddCategory(caller, c)
        \/ \E n \in ParentNames : DeleteCategory(caller, n)
        \/ \E l \in Listings, c \in CategoryIds :
               AddProduct(caller, l.name, l.price, l.image, c)

SpecRegistryAndCatalog == Init /\ [][NextRegistryAndCatalog]_vars

\* the whole actor
Next ==
    \/ NextCategories \/ NextCatalog \/ NextAccess \/ NextRegistryAndCatalog
    \/ NextBaskets \/ NextClients \/ NextUpgrades

Spec == Init /\ [][Next]_vars

(***************************************************************************)
(* Properties of the category registry                                     *)
(***************************************************************************)

\* C1: every category with a parent P has P in the registry, is listed in
\* P.subcategories, and P itself has no parent (nesting depth at most 2).
DepthInvariant ==
    \A a \in DOMAIN categories :
        categories[a].parent # null =>
            LET p == categories[a].parent[1] IN
            /\ p \in DOMAIN categories
            /\ Contains(categories[p].subcategories, categories[a].name)
            /\ categories[p].parent = null

\* C2: every name B listed in A.subcategories is a category of the registry
\* whose parent is A.
SubcategoriesHaveParent ==
    \A a \in DOMAIN categories :
        \A i \in 1..Len(categories[a].subcategories) :
            LET b == categories[a].subcategories[i] IN
            /\ b \in DOMAIN categories
            /\ categories[b].parent = Some(categories[a].name)

\* the four cases in which addCategory must refuse
AddCategoryMustFail(cats, c) ==
    \/ c.name = ""
    \/ c.name \in DOMAIN cats
    \/ /\ c.parent # null
       /\ \/ c.parent[1] \notin DOMAIN cats
          \/ cats[c.parent[1]].parent # null

\* C3: addCategory by an admin traps and leaves the registry as it was when the
\* name is empty or taken, or the parent is missing or is itself a subcategory.
AddCategoryRejects ==
    \A c \in CategoryV2 :
        AddCategoryMustFail(categories, c) =>
            LET r == addCategory(categories, "admin", c) IN
            /\ r.trap # Ok
            /\ r.categories = categories

\* an addCategory call has been refused for the depth of its parent, and the
\* registry still holds the parent and the grandparent
AddCategoryRejectedSeen ==
    /\ last = [op |-> "addCategory",
               trap |-> NestedSubcategory]
    /\ \E k \in DOMAIN categories : categories[k].parent # null

\* the registry after addCategory of top-level "3d print" on an empty registry
OnlyPrint ==
    addCategory(MapEmpty, "admin",
                [name |-> "3d print", subcategories |-> <<>>, parent |-> null]).categories

\* C4: a successful addCategory(c) inserts c under c.name; with a parent P it
\* also appends c.name at the end of P.subcategories; nothing else changes.
\* "3d print" then "shape type" under it gives subcategories <<"shape type">>.
AddCategoryInserts ==
    /\ \A c \in CategoryV2 :
           LET r == addCategory(categories, "admin", c) IN
           r.trap = Ok =>
               /\ DOMAIN r.categories = DOMAIN categories \cup {c.name}
               /\ r.categories[c.name] = c
               /\ \A k \in DOMAIN categories :
                      r.categories[k] =
                          IF c.parent = Some(k)
                          THEN [categories[k] EXCEPT !.subcategories =
                                    Append(categories[k].subcategories, c.name)]
                          ELSE categories[k]
    /\ addCategory(OnlyPrint, "admin",
                   [name |-> "shape type", subcategories |-> <<>>,
                    parent |-> Some("3d print")]).categories["3d print"].subcategories
           = <<"shape type">>

\* addCategory has just put "shape type" under "3d print"
AddCategoryInsertedSeen ==
    /\ last = [op |-> "addCategory", trap |-> Ok]
    /\ DOMAIN categories = {"3d print", "shape type"}
    /\ categories["3d print"].subcategories = <<"shape type">>
    /\ categories["shape type"].parent = Some("3d print")

(***************************************************************************)
(* Properties of the permission checks                                     *)
(***************************************************************************)
Refused(r) == r.trap # Ok

\* C5: a caller without the admin permission is refused by every mutating
\* operation on categories, batch session and catalog, and the categories,
\* products, pending list and batch flag stay as they were.
UnauthorizedCallsRejected ==
    \A caller \in Principals \ Admins :
        /\ \A c \in CategoryV2 :
               /\ Refused(addCategory(categories, caller, c))
               /\ addCategory(categories, caller, c).categories = categories
               /\ Refused(updateCategory(categories, caller, c))
               /\ updateCategory(categories, caller, c).categories = categories
               /\ \A n \in Texts :
                      /\ Refused(editCategory(categories, caller, n, c))
                      /\ editCategory(categories, caller, n, c).categories = categories
        /\ \A n \in Texts \cup ParentNames :
               /\ Refused(deleteCategory(categories, caller, n))
               /\ deleteCategory(categories, caller, n).categories = categories
        /\ \A l \in ReorderLists :
               /\ Refused(reorderCategories(categories, caller, l))
               /\ reorderCategories(categories, caller, l).categories = categories
        /\ \A c \in CategoryIds :
               LET r == startBatchUpload(categories, currentBatch, isBatchUploading,
                                         caller, c) IN
               /\ Refused(r)
               /\ r.currentBatch = currentBatch
               /\ r.isBatchUploading = isBatchUploading
        /\ \A l \in Listings, c \in CategoryIds :
               /\ Refused(uploadProductImage(products, currentBatch, isBatchUploading,
                                             caller, l.name, l.image, l.price, c))
               /\ uploadProductImage(products, currentBatch, isBatchUploading, caller,
                                     l.name, l.image, l.price, c).currentBatch
                      = currentBatch
               /\ Refused(addProduct(categories, products, caller, l.name, l.price,
                                     l.image, c))
               /\ addProduct(categories, products, caller, l.name, l.price, l.image,
                             c).products = products
        /\ LET r == finishBatchUpload(categories, products, currentBatch,
                                      isBatchUploading, caller) IN
           /\ Refused(r)
           /\ r.products = products
           /\ r.currentBatch = currentBatch
           /\ r.isBatchUploading = isBatchUploading
        /\ \A id \in ProductIds, i \in Images :
               /\ Refused(updateProductImage(products, caller, id, i))
               /\ updateProductImage(products, caller, id, i).products = products

\* a caller without the admin permission has called finishBatchUpload on an
\* active batch with a pending item and was refused
UnauthorizedFinishSeen ==
    /\ last = [op |-> "finishBatchUpload",
               trap |-> "Unauthorized: Only admins can perform this action"]
    /\ isBatchUploading
    /\ currentBatch # <<>>

(***************************************************************************)
(* Properties of the batch upload session                                  *)
(***************************************************************************)

\* C6: startBatchUpload by an admin succeeds exactly when no batch is active
\* and categoryId is a key of the registry; then the batch is active and the
\* pending list is empty.
StartSucceedsIffIdleAndKnown ==
    \A c \in CategoryIds \cup ParentNames :
        LET r == startBatchUpload(categories, currentBatch, isBatchUploading,
                                  "admin", c) IN
        /\ r.trap = Ok <=> (~isBatchUploading /\ c \in DOMAIN categories)
        /\ r.trap = Ok => (r.isBatchUploading /\ r.currentBatch = <<>>)

\* a batch has just been started after an earlier one was finished
StartSeen ==
    /\ last = [op |-> "startBatchUpload", trap |-> Ok]
    /\ isBatchUploading
    /\ currentBatch = <<>>
    /\ products # MapEmpty

\* C7: startBatchUpload while a batch is active is refused and leaves the
\* batch flag and the pending list, with the items appended so far, alone.
StartWhileActiveRejected ==
    isBatchUploading =>
        \A c \in CategoryIds \cup ParentNames :
            LET r == startBatchUpload(categories, currentBatch, isBatchUploading,
                                      "admin", c) IN
            /\ r.trap # Ok
            /\ r.currentBatch = currentBatch
            /\ r.isBatchUploading

\* a start was refused while the active batch held an item
StartWhileActiveSeen ==
    /\ last = [op |-> "startBatchUpload", trap |-> BatchInProgress]
    /\ isBatchUploading
    /\ currentBatch # <<>>

\* C8: uploadProductImage while no batch is active is refused and leaves the
\* pending list (and so the catalog) alone.
UploadWhileIdleRejected ==
    ~isBatchUploading =>
        \A l \in Listings, c \in CategoryIds :
            LET r == uploadProductImage(products, currentBatch, isBatchUploading,
                                        "admin", l.name, l.image, l.price, c) IN
            /\ r.trap # Ok
            /\ r.currentBatch = currentBatch

\* an upload was refused after a batch had been finished
UploadWhileIdleSeen ==
    /\ last = [op |-> "uploadProductImage",
               trap |-> "No batch in progress. Start a new batch upload first."]
    /\ ~isBatchUploading
    /\ products # MapEmpty

\* C9: whenever no batch is active the pending list is empty.
IdleHasEmptyPending ==
    ~isBatchUploading => currentBatch = <<>>

\* the pending list after an admin appends items to batch, one upload each
RECURSIVE appendAll(_, _, _)
appendAll(prods, batch, items) ==
    IF items = <<>> THEN batch
    ELSE appendAll(prods,
                   uploadProductImage(prods, batch, TRUE, "admin", Head(items).name,
                                      Head(items).image, Head(items).price,
                                      Head(items).categoryId).currentBatch,
                   Tail(items))

\* the catalog after start(c), one append per item, finish, nothing in between
batchRun(c, items) ==
    LET started == startBatchUpload(categories, currentBatch, isBatchUploading,
                                    "admin", c)
        pending == appendAll(products, started.currentBatch, items)
    IN  finishBatchUpload(categories, products, pending, started.isBatchUploading,
                          "admin").products

BatchItems ==
    {[name |-> l.name, price |-> l.price, image |-> l.image, categoryId |-> c] :
        l \in Listings, c \in CategoryIds}

MatchesItem(product, item) ==
    /\ product.name = item.name
    /\ product.price = item.price
    /\ product.categoryId = item.categoryId
    /\ product.image = item.image

\* C10: a run start(c), k appends, finish with nothing in between and every
\* item's category in the registry leaves the earlier products as they were
\* and adds exactly k products, one per appended item.
BatchRunAddsOnePerItem ==
    ~isBatchUploading =>
        \A c \in DOMAIN categories, items \in SeqsUpTo(BatchItems, MaxBatch) :
            (\A i \in 1..Len(items) : items[i].categoryId \in DOMAIN categories) =>
                LET after == batchRun(c, items) IN
                /\ \A id \in DOMAIN products :
                       id \in DOMAIN after /\ after[id] = products[id]
                /\ MapSize(after) = MapSize(products) + Len(items)
                /\ \A i \in 1..Len(items) :
                       \E id \in DOMAIN after \ DOMAIN products :
                           MatchesItem(after[id], items[i])

(***************************************************************************)
(* Properties of finishBatchUpload                                         *)
(***************************************************************************)

\* C11: finishBatchUpload by an admin on an empty pending list succeeds,
\* leaves the catalog as it was and leaves the session Idle.
FinishOfEmptyBatch ==
    currentBatch = <<>> =>
        \A caller \in Admins :
            LET r == finishBatchUpload(categories, products, currentBatch,
                                       isBatchUploading, caller)
            IN  /\ r.trap = Ok
                /\ r.products = products
                /\ r.isBatchUploading = FALSE

FinishOfEmptyBatchSeen ==
    /\ last = [op |-> "finishBatchUpload", trap |-> Ok]
    /\ currentBatch = <<>>
    /\ ~isBatchUploading
    /\ products # MapEmpty

\* the pending list holds an item whose category is not in the registry
SomeCategoryMissing ==
    \E i \in 1..Len(currentBatch) :
        ~containsKey(categories, currentBatch[i].categoryId)

\* C12: when the category of some pending item is missing, finishBatchUpload
\* fails and the catalog after the call is the catalog before it, also when
\* earlier items of the list have a category that exists.
FinishWithMissingCategoryCommitsNothing ==
    SomeCategoryMissing =>
        \A caller \in Admins :
            LET r == finishBatchUpload(categories, products, currentBatch,
                                       isBatchUploading, caller)
            IN  /\ r.trap # Ok
                /\ r.products = products

FinishAbortedSeen ==
    /\ last = [op |-> "finishBatchUpload", trap |-> "Category does not exist"]
    /\ Len(currentBatch) = 2
    /\ containsKey(categories, currentBatch[1].categoryId)
    /\ ~containsKey(categories, currentBatch[2].categoryId)
    /\ ~containsKey(products, currentBatch[1].id)

\* C13: every finishBatchUpload by an admin in an Active session leaves the
\* session Idle, whatever the pending items are, so that a startBatchUpload
\* on any category of the registry succeeds right after it.
FinishAlwaysEndsSession ==
    isBatchUploading =>
        \A caller \in Admins :
            LET r == finishBatchUpload(categories, products, currentBatch,
                                       isBatchUploading, caller)
            IN  /\ r.isBatchUploading = FALSE
                /\ \A c \in DOMAIN categories :
                       startBatchUpload(categories, r.currentBatch,
                                        r.isBatchUploading, caller, c).trap = Ok

(***************************************************************************)
(* Properties of the product catalog                                       *)
(***************************************************************************)

\* C14: updateProductImage by an admin fails and leaves the catalog as it
\* was when the id is not in the catalog; otherwise it returns and stores a
\* product with the id, name, description, price and categoryId of the
\* previous record and the new image, and no other product changes.
UpdateProductImageReplacesOnlyImage ==
    \A caller \in Admins, id \in ProductIds, newImage \in Images :
        LET r == updateProductImage(products, caller, id, newImage) IN
        IF ~containsKey(products, id)
        THEN r.trap # Ok /\ r.products = products
        ELSE /\ r.trap = Ok
             /\ DOMAIN r.products = DOMAIN products
             /\ r.result = Some(r.products[id])
             /\ r.products[id].id = products[id].id
             /\ r.products[id].name = products[id].name
             /\ r.products[id].description = products[id].description
             /\ r.products[id].price = products[id].price
             /\ r.products[id].categoryId = products[id].categoryId
             /\ r.products[id].image = newImage
             /\ \A other \in DOMAIN products \ {id} :
                    r.products[other] = products[other]

UpdateProductImageSeen ==
    /\ last = [op |-> "updateProductImage", trap |-> Ok]
    /\ MapSize(products) = 2
    /\ \E a, b \in DOMAIN products :
           products[a].image = "refY" /\ products[b].image = "refX"

\* what deleteCategory does to the registry, for every name it can be given
DeleteCategoryRemovesOneEntry ==
    \A caller \in Admins, name \in ParentNames \cup Texts :
        LET r == deleteCategory(categories, caller, name) IN
        IF containsKey(categories, name)
        THEN /\ r.trap = Ok
             /\ DOMAIN r.categories = DOMAIN categories \ {name}
             /\ \A k \in DOMAIN r.categories : r.categories[k] = categories[k]
        ELSE r.trap # Ok /\ r.categories = categories

\* a deleteCategory step leaves the catalog alone, and the registry too
\* when it fails
DeleteCategoryStep ==
    last'.op = "deleteCategory" =>
        /\ products' = products
        /\ last'.trap # Ok => categories' = categories

\* C15: deleteCategory on an existing name removes the entry of that name
\* and nothing else: every other category record, the subcategories of the
\* deleted category with their parent field included, and every product
\* stay as they were; on a name not in the registry it fails and changes
\* nothing.
DeleteCategoryFrame ==
    []DeleteCategoryRemovesOneEntry /\ [][DeleteCategoryStep]_vars

DeleteCategoryOrphansSeen ==
    /\ last = [op |-> "deleteCategory", trap |-> Ok]
    /\ DOMAIN categories = {"shape type"}
    /\ categories["shape type"].parent = Some("3d print")
    /\ \E p \in DOMAIN products : products[p].categoryId = "3d print"

\* C16: addProduct by an admin fails and leaves the catalog as it was when
\* categoryId is not a key of the registry; otherwise it inserts one product
\* with the given name, price, image and categoryId under the id
\* name # "#" # (number of products before the call), and the catalog has
\* exactly one product more.
AddProductInsertsOne ==
    \A caller \in Admins, l \in Listings, c \in CategoryIds :
        LET r == addProduct(categories, products, caller, l.name, l.price,
                            l.image, c)
            id == l.name \o "#" \o ToString(MapSize(products))
        IN  IF ~containsKey(categories, c)
            THEN r.trap # Ok /\ r.products = products
            ELSE /\ r.trap = Ok
                 /\ MapSize(r.products) = MapSize(products) + 1
                 /\ DOMAIN r.products = DOMAIN products \cup {id}
                 /\ r.products[id].id = id
                 /\ r.products[id].name = l.name
                 /\ r.products[id].price = l.price
                 /\ r.products[id].image = l.image
                 /\ r.products[id].categoryId = c
                 /\ \A k \in DOMAIN products : r.products[k] = products[k]

AddProductSeen ==
    /\ last = [op |-> "addProduct", trap |-> Ok]
    /\ DOMAIN products = {"Widget#0", "Gadget#1"}
    /\ products["Gadget#1"].price = 900

(***************************************************************************)
(* Properties of the baskets                                               *)
(***************************************************************************)
Users == {p \in Shoppers : hasPermissionUser(p)}

BasketOf(bsk, caller) == IF containsKey(bsk, caller) THEN bsk[caller] ELSE MapEmpty

\* C17: addToBasket by a user fails and changes no basket when the product
\* is not in the catalog; otherwise the caller's basket afterwards maps the
\* product to the given quantity, whatever quantity it had before, and the
\* caller's other entries are as they were.
AddToBasketOverwrites ==
    \A caller \in Users, id \in ProductIds, q \in Quantities :
        LET r == addToBasket(products, baskets, caller, id, q)
            before == BasketOf(baskets, caller)
        IN  IF ~containsKey(products, id)
            THEN r.trap # Ok /\ r.baskets = baskets
            ELSE /\ r.trap = Ok
                 /\ containsKey(r.baskets, caller)
                 /\ DOMAIN r.baskets[caller] = DOMAIN before \cup {id}
                 /\ r.baskets[caller][id] = q
                 /\ \A other \in DOMAIN before \ {id} :
                        r.baskets[caller][other] = before[other]

AddToBasketSeen ==
    /\ last = [op |-> "addToBasket", trap |-> Ok, caller |-> "alice"]
    /\ containsKey(baskets, "alice")
    /\ \E a, b \in DOMAIN baskets["alice"] :
           baskets["alice"][a] = 2 /\ baskets["alice"][b] = 1

\* C18: removeFromBasket fails and changes no basket when the caller has no
\* basket mapping or the product is not in the catalog; otherwise it deletes
\* the product's entry from the caller's basket and leaves the caller's
\* other entries as they were.
RemoveFromBasketDeletesEntry ==
    \A caller \in Users, id \in ProductIds :
        LET r == removeFromBasket(products, baskets, caller, id) IN
        IF ~containsKey(baskets, caller) \/ ~containsKey(products, id)
        THEN r.trap # Ok /\ r.baskets = baskets
        ELSE /\ r.trap = Ok
             /\ containsKey(r.baskets, caller)
             /\ DOMAIN r.baskets[caller] = DOMAIN baskets[caller] \ {id}
             /\ \A other \in DOMAIN r.baskets[caller] :
                    r.baskets[caller][other] = baskets[caller][other]

RemoveFromBasketSeen ==
    /\ last = [op |-> "removeFromBasket", trap |-> Ok, caller |-> "alice"]
    /\ containsKey(baskets, "alice")
    /\ Cardinality(DOMAIN baskets["alice"]) = 1
    /\ MapSize(products) = 2

\* after clearBasket the caller has no mapping: getBasket returns nothing,
\* removeFromBasket traps on the absent basket, and a successful addToBasket
\* creates a basket with the one entry
ClearedBasketIsAbsent ==
    \A caller \in Users :
        LET r == clearBasket(baskets, caller) IN
        /\ r.trap = Ok
        /\ ~containsKey(r.baskets, caller)
        /\ getBasket(r.baskets, caller) = [trap |-> Ok, result |-> {}]
        /\ \A id \in ProductIds :
               removeFromBasket(products, r.baskets, caller, id) =
                   [trap |-> BasketAbsent, baskets |-> r.baskets]
        /\ \A id \in DOMAIN products, q \in Quantities :
               addToBasket(products, r.baskets, caller, id, q).baskets[caller]
                   = [x \in {id} |-> q]

\* a mapping appears only in a successful addToBasket of its owner
MappingCreatedByAdd ==
    \A caller \in Shoppers :
        (~containsKey(baskets, caller) /\ containsKey(baskets', caller)) =>
            last' = [op |-> "addToBasket", trap |-> Ok, caller |-> caller]

\* C19: clearBasket removes the caller's basket mapping: from then on
\* getBasket returns the empty sequence for the caller and the caller's
\* removeFromBasket fails on the absent basket, until the caller's next
\* successful addToBasket creates the mapping again.
ClearBasketRemovesMapping ==
    []ClearedBasketIsAbsent /\ [][MappingCreatedByAdd]_vars

ClearBasketSeen ==
    /\ last = [op |-> "clearBasket", trap |-> Ok, caller |-> "alice"]
    /\ ~containsKey(baskets, "alice")
    /\ containsKey(baskets, "bob")
    /\ baskets["bob"] # MapEmpty

(***************************************************************************)
(* Properties of concurrent batch uploads                                  *)
(***************************************************************************)

\* C20: with two admin pages running start, uploads, finish, a page giving
\* up when its start is rejected, and the calls interleaved one whole call
\* at a time, the pending list of a page that has started and not yet
\* finished holds the items that page uploaded since its start and nothing
\* else, no other page is inside a batch, and its finish commits those items.
BatchFlagIsGate ==
    \A c \in Clients :
        clients[c].pc = "uploading" =>
            /\ isBatchUploading
            /\ currentBatch = clients[c].sent
            /\ \A d \in Clients \ {c} : clients[d].pc = "idle"
            /\ LET r == finishBatchUpload(categories, products, currentBatch,
                                          isBatchUploading, PageCaller)
               IN  /\ r.trap = Ok
                   /\ r.products = commitBatch(categories, products, clients[c].sent)

\* page1 has just been refused while page2 is in its batch, after an
\* earlier batch was committed
BatchGateSeen ==
    /\ last = [op |-> "startBatchUpload", trap |-> BatchInProgress, client |-> "page1"]
    /\ clients["page2"].pc = "uploading"
    /\ Len(clients["page2"].sent) = 1
    /\ products # MapEmpty

(***************************************************************************)
(* Properties of the stored products                                       *)
(***************************************************************************)

\* every product of the catalog is still returned after the step
StoredProductsStay ==
    \A id \in DOMAIN products :
        /\ getProduct(products', id) # null
        /\ \E p \in getAllProducts(products') : p.id = id

\* C21: a product stored by addProduct or finishBatchUpload is returned by
\* getProduct and getAllProducts in every later state, to every caller: no
\* step removes a product from the catalog.
ProductsStayVisible == [][StoredProductsStay]_vars

ProductOutlivesCategorySeen ==
    /\ last = [op |-> "deleteCategory", trap |-> Ok]
    /\ categories = MapEmpty
    /\ getProduct(products, "Widget#0") # null
    /\ Cardinality(getAllProducts(products)) = 2

(***************************************************************************)
(* Properties of the upgrade migration                                     *)
(***************************************************************************)
Occurrences(s, x) == Cardinality({i \in 1..Len(s) : s[i] = x})

\* C22: after the migration has run on a registry that holds "3d print",
\* the registry holds a category "shape type" whose parent is "3d print",
\* "3d print" lists "shape type" exactly once, and a second run changes
\* nothing.
MigrationCreatesShapeType ==
    containsKey(categories, "3d print") =>
        LET r == run(categories) IN
        /\ containsKey(r, "shape type")
        /\ r["shape type"].parent = Some("3d print")
        /\ Occurrences(r["3d print"].subcategories, "shape type") = 1
        /\ run(r) = r

(***************************************************************************)
(* Properties of updateCategory and editCategory                           *)
(***************************************************************************)
\* the categories other than `except` that list `name` as a subcategory
ListedBy(cats, name, except) ==
    {k \in DOMAIN cats \ except : Contains(cats[k].subcategories, name)}

\* C23: after a successful updateCategory(c), a c with parent P is listed
\* in P.subcategories and in the list of no other category; a c without a
\* parent is listed by no category other than possibly c itself.
UpdateCategoryRelinks ==
    \A caller \in Admins, c \in CategoryV2 :
        LET r == updateCategory(categories, caller, c) IN
        r.trap = Ok =>
            IF c.parent # null
            THEN /\ Contains(r.categories[c.parent[1]].subcategories, c.name)
                 /\ ListedBy(r.categories, c.name, {c.parent[1]}) = {}
            ELSE ListedBy(r.categories, c.name, {c.name}) = {}

\* C24: a successful editCategory(oldName, newCategory) with a new name
\* removes the key oldName, stores newCategory under its name and leaves
\* every other category record as it was, none lost and none overwritten,
\* so that the registry has as many categories as before.
EditCategoryRenames ==
    \A caller \in Admins, oldName \in Names, c \in CategoryV2 :
        LET r == editCategory(categories, caller, oldName, c) IN
        (r.trap = Ok /\ c.name # oldName) =>
            /\ ~containsKey(r.categories, oldName)
            /\ containsKey(r.categories, c.name)
            /\ r.categories[c.name] = c
            /\ \A k \in DOMAIN categories \ {oldName} :
                   containsKey(r.categories, k) /\ r.categories[k] = categories[k]
            /\ MapSize(r.categories) = MapSize(categories)

(***************************************************************************)
(* Further properties of the batch upload session                          *)
(***************************************************************************)

\* what uploadProductImage does to the pending list of an Active session
UploadAppendsOneItem ==
    isBatchUploading =>
        \A caller \in Admins, l \in Listings, c \in CategoryIds :
            LET r == uploadProductImage(products, currentBatch, isBatchUploading,
                                        caller, l.name, l.image, l.price, c)
                id == l.name \o "#" \o ToString(MapSize(products))
            IN  /\ r.trap = Ok
                /\ r.currentBatch =
                       Append(currentBatch,
                              [id |-> id, name |-> l.name, price |-> l.price,
                               image |-> l.image, categoryId |-> c])

\* an uploadProductImage step leaves catalog, registry and flag alone
UploadProductImageStep ==
    last'.op = "uploadProductImage" =>
        /\ products' = products
        /\ categories' = categories
        /\ isBatchUploading' = isBatchUploading

PendingItemsShareStartCategory ==
    \A caller \in Admins, c \in CategoryIds, l \in Listings, itemCategory \in CategoryIds :
        LET s == startBatchUpload(categories, currentBatch, isBatchUploading,
                                  caller, c)
            u == uploadProductImage(products, s.currentBatch, s.isBatchUploading,
                                    caller, l.name, l.image, l.price, itemCategory)
        IN  (s.trap = Ok /\ u.trap = Ok) =>
                \A i \in 1..Len(u.currentBatch) : u.currentBatch[i].categoryId = c

\* C27: finishBatchUpload needs an Active session: called while the session
\* is Idle it commits nothing and leaves the catalog exactly as it was.
IdleFinishCommitsNothing ==
    ~isBatchUploading =>
        \A caller \in Admins :
            finishBatchUpload(categories, products, currentBatch,
                              isBatchUploading, caller).products = products

\* the name, price and categoryId of the products of `before` are the same
\* in `after`
SameListing(before, after) ==
    \A k \in DOMAIN before :
        /\ containsKey(after, k)
        /\ after[k].name = before[k].name
        /\ after[k].price = before[k].price
        /\ after[k].categoryId = before[k].categoryId

\* C28: product creation never overwrites a product: every addProduct and
\* every item committed by the finishBatchUpload of an Active batch becomes
\* a catalog entry of its own, so the catalog grows by the number of items
\* committed, and the name, price and categoryId of a stored product stay.
CreationNeverOverwrites ==
    /\ \A caller \in Admins, l \in Listings, c \in CategoryIds :
           LET r == addProduct(categories, products, caller, l.name, l.price,
                               l.image, c)
           IN  r.trap = Ok =>
                   /\ MapSize(r.products) = MapSize(products) + 1
                   /\ SameListing(products, r.products)
    /\ isBatchUploading =>
           \A caller \in Admins :
               LET r == finishBatchUpload(categories, products, currentBatch,
                                          isBatchUploading, caller)
               IN  r.trap = Ok =>
                       /\ MapSize(r.products) = MapSize(products) + Len(currentBatch)
                       /\ SameListing(products, r.products)

(***************************************************************************)
(* Further properties of the baskets                                       *)
(***************************************************************************)

\* C29: every productId that is a key of some basket is the id of a product
\* of the catalog.
BasketsHoldStoredProducts ==
    \A owner \in DOMAIN baskets :
        \A id \in DOMAIN baskets[owner] : containsKey(products, id)

BasketsFilledSeen ==
    /\ containsKey(baskets, "alice")
    /\ containsKey(baskets, "bob")
    /\ DOMAIN baskets["alice"] = DOMAIN products
    /\ MapSize(products) = 2
    /\ DOMAIN baskets["bob"] = {"Widget#0"}

\* C30: addToBasket, removeFromBasket and clearBasket called by X leave
\* the result of getBasket of every other caller Y as it was, whether the
\* call succeeds or fails.
BasketsIsolated ==
    \A x \in Shoppers : \A y \in Shoppers \ {x} :
        LET seen == getBasket(baskets, y) IN
        /\ \A id \in ProductIds, q \in Quantities :
               getBasket(addToBasket(products, baskets, x, id, q).baskets, y) = seen
        /\ \A id \in ProductIds :
               getBasket(removeFromBasket(products, baskets, x, id).baskets, y) = seen
        /\ getBasket(clearBasket(baskets, x).baskets, y) = seen

OtherBasketKeptSeen ==
    /\ last = [op |-> "clearBasket", trap |-> Ok, caller |-> "bob"]
    /\ ~containsKey(baskets, "bob")
    /\ getBasket(baskets, "alice").result =
           {[productId |-> "Widget#0", quantity |-> 2],
            [productId |-> "Gadget#1", quantity |-> 1]}

=============================================================================
